---- MODULE Spec2Model ----
(***************************************************************************)
(* Career Match Evaluator (src/app.py): the persistence store              *)
(* (save_user_data / load_user_data), the evaluation client                *)
(* (call_openrouter) and the submit branch of main().                      *)
(*                                                                         *)
(* Text is a sequence of characters.  A character is a one-character       *)
(* string; a character outside ASCII is written "U+XXXX".  Python values   *)
(* (None, bool, int, str, list, dict) are tagged records; a dict keeps its *)
(* items as a sequence of <<key, value>> pairs in insertion order.         *)
(***************************************************************************)
EXTENDS Integers, Sequences, FiniteSets, TLC

\* ------------------------------------------------------------------------
\* Python values
\* ------------------------------------------------------------------------
None == [t |-> "null"]
PyBool(b) == [t |-> "bool", b |-> b]
PyInt(n) == [t |-> "num", n |-> n]
PyStr(s) == [t |-> "str", s |-> s]
PyList(a) == [t |-> "arr", a |-> a]
PyDict(p) == [t |-> "obj", p |-> p]

\* bool(v): the truth value Python gives a value (`not content`, `not api_key`)
Truthy(v) ==
  CASE v.t = "null" -> FALSE
    [] v.t = "bool" -> v.b
    [] v.t = "num" -> v.n # 0
    [] v.t = "str" -> Len(v.s) > 0
    [] v.t = "arr" -> Len(v.a) > 0
    [] v.t = "obj" -> Len(v.p) > 0

\* ------------------------------------------------------------------------
\* Characters
\* ------------------------------------------------------------------------
Digits == <<"0", "1", "2", "3", "4", "5", "6", "7", "8", "9">>
DigitChars == {Digits[i] : i \in 1..10}
DigitVal(c) == (CHOOSE i \in 1..10 : Digits[i] = c) - 1

\* characters str.strip() removes
Whitespace == {" ", "\n", "\t", "\r"}
\* characters the JSON decoder skips between tokens
JsonWs == {" ", "\n", "\t", "\r"}
\* characters the JSON grammar forbids unescaped inside a string
ControlChars == {"\n", "\t", "\r"}
\* the non-ASCII characters of the model, with their \uXXXX digits
Hex4 == ("U+00E9" :> <<"0", "0", "e", "9">>) @@ ("U+4E2D" :> <<"4", "e", "2", "d">>)
NonAscii == DOMAIN Hex4
\* two-character escapes of the JSON encoder: character -> letter after the backslash
EscapeOf == ("\"" :> "\"") @@ ("\\" :> "\\") @@ ("\n" :> "n") @@ ("\t" :> "t") @@ ("\r" :> "r")
\* two-character escapes of the JSON decoder: letter after the backslash -> character
UnescapeOf == ("\"" :> "\"") @@ ("\\" :> "\\") @@ ("/" :> "/") @@ ("n" :> "\n") @@ ("t" :> "\t") @@ ("r" :> "\r")
LowerHex == ("A" :> "a") @@ ("B" :> "b") @@ ("C" :> "c") @@ ("D" :> "d") @@ ("E" :> "e") @@ ("F" :> "f")
Lower(c) == IF c \in DOMAIN LowerHex THEN LowerHex[c] ELSE c

\* ------------------------------------------------------------------------
\* str.strip(), str(int)
\* ------------------------------------------------------------------------
RECURSIVE LStrip(_)
LStrip(s) == IF Len(s) > 0 /\ Head(s) \in Whitespace THEN LStrip(Tail(s)) ELSE s

RECURSIVE RStrip(_)
RStrip(s) == IF Len(s) > 0 /\ s[Len(s)] \in Whitespace THEN RStrip(SubSeq(s, 1, Len(s) - 1)) ELSE s

Strip(s) == RStrip(LStrip(s))

RECURSIVE IntToStr(_)
IntToStr(n) == IF n < 10 THEN <<Digits[n + 1]>> ELSE IntToStr(n \div 10) \o <<Digits[(n % 10) + 1]>>

\* ------------------------------------------------------------------------
\* json.dumps(value, indent=...)
\* ------------------------------------------------------------------------
EscapeChar(c) ==
  IF c \in DOMAIN EscapeOf THEN <<"\\", EscapeOf[c]>>
  ELSE IF c \in NonAscii THEN <<"\\", "u">> \o Hex4[c]
  ELSE <<c>>

RECURSIVE EscapeText(_)
EscapeText(s) == IF s = <<>> THEN <<>> ELSE EscapeChar(Head(s)) \o EscapeText(Tail(s))

EncodeString(s) == <<"\"">> \o EscapeText(s) \o <<"\"">>

RECURSIVE Spaces(_)
Spaces(n) == IF n <= 0 THEN <<>> ELSE <<" ">> \o Spaces(n - 1)

\* what json writes between items, and before the first / after the last item;
\* indent is None (the default, one line) or a PyInt
ItemSep(indent, level) == IF indent = None THEN <<",", " ">> ELSE <<",", "\n">> \o Spaces(indent.n * level)
OpenSep(indent, level) == IF indent = None THEN <<>> ELSE <<"\n">> \o Spaces(indent.n * level)

RECURSIVE json_dumps_at(_, _, _)
RECURSIVE DumpItems(_, _, _, _)
RECURSIVE DumpPairs(_, _, _, _)

DumpItems(a, i, indent, level) ==
  IF i > Len(a) THEN <<>>
  ELSE (IF i > 1 THEN ItemSep(indent, level) ELSE <<>>)
       \o json_dumps_at(a[i], indent, level) \o DumpItems(a, i + 1, indent, level)

DumpPairs(p, i, indent, level) ==
  IF i > Len(p) THEN <<>>
  ELSE (IF i > 1 THEN ItemSep(indent, level) ELSE <<>>)
       \o EncodeString(p[i][1]) \o <<":", " ">>
       \o json_dumps_at(p[i][2], indent, level) \o DumpPairs(p, i + 1, indent, level)

json_dumps_at(v, indent, level) ==
  CASE v.t = "null" -> <<"n", "u", "l", "l">>
    [] v.t = "bool" -> IF v.b THEN <<"t", "r", "u", "e">> ELSE <<"f", "a", "l", "s", "e">>
    [] v.t = "num" -> IntToStr(v.n)
    [] v.t = "str" -> EncodeString(v.s)
    [] v.t = "arr" ->
         IF v.a = <<>> THEN <<"[", "]">>
         ELSE <<"[">> \o OpenSep(indent, level + 1) \o DumpItems(v.a, 1, indent, level + 1)
              \o OpenSep(indent, level) \o <<"]">>
    [] v.t = "obj" ->
         IF v.p = <<>> THEN <<"{", "}">>
         ELSE <<"{">> \o OpenSep(indent, level + 1) \o DumpPairs(v.p, 1, indent, level + 1)
              \o OpenSep(indent, level) \o <<"}">>

json_dumps(v, indent) == json_dumps_at(v, indent, 0)

\* ------------------------------------------------------------------------
\* json.loads(text): [ok, val, pos]; ok = FALSE stands for JSONDecodeError
\* ------------------------------------------------------------------------
Fail == [ok |-> FALSE, val |-> None, pos |-> 0]
Parsed(v, i) == [ok |-> TRUE, val |-> v, pos |-> i]

RECURSIVE SkipWs(_, _)
SkipWs(s, i) == IF i <= Len(s) /\ s[i] \in JsonWs THEN SkipWs(s, i + 1) ELSE i

\* does s continue at position i with the characters of lit?
Lit(s, i, lit) == i + Len(lit) - 1 <= Len(s) /\ SubSeq(s, i, i + Len(lit) - 1) = lit

FromHex4(d) ==
  IF \E c \in NonAscii : Hex4[c] = [k \in 1..4 |-> Lower(d[k])]
  THEN Parsed(CHOOSE c \in NonAscii : Hex4[c] = [k \in 1..4 |-> Lower(d[k])], 0)
  ELSE Fail

\* the body of a string from position i (after the opening quote)
RECURSIVE ScanString(_, _, _)
ScanString(s, i, acc) ==
  IF i > Len(s) THEN Fail
  ELSE IF s[i] = "\"" THEN Parsed(acc, i + 1)
  ELSE IF s[i] = "\\" THEN
    IF i + 1 > Len(s) THEN Fail
    ELSE IF s[i + 1] \in DOMAIN UnescapeOf THEN ScanString(s, i + 2, Append(acc, UnescapeOf[s[i + 1]]))
    ELSE IF s[i + 1] = "u" /\ i + 5 <= Len(s) /\ FromHex4(SubSeq(s, i + 2, i + 5)).ok
      THEN ScanString(s, i + 6, Append(acc, FromHex4(SubSeq(s, i + 2, i + 5)).val))
    ELSE Fail
  ELSE IF s[i] \in ControlChars THEN Fail
  ELSE ScanString(s, i + 1, Append(acc, s[i]))

\* a non-negative integer: 0, or a non-zero digit followed by digits
RECURSIVE ScanDigits(_, _, _)
ScanDigits(s, i, n) ==
  IF i <= Len(s) /\ s[i] \in DigitChars THEN ScanDigits(s, i + 1, n * 10 + DigitVal(s[i])) ELSE Parsed(PyInt(n), i)

ScanNumber(s, i) == IF s[i] = "0" THEN Parsed(PyInt(0), i + 1) ELSE ScanDigits(s, i, 0)

\* dict[key] = value: a repeated key keeps its place and takes the new value
SetItem(p, k, v) ==
  IF \E j \in 1..Len(p) : p[j][1] = k
  THEN [j \in 1..Len(p) |-> IF p[j][1] = k THEN <<k, v>> ELSE p[j]]
  ELSE Append(p, <<k, v>>)

\* a scanned string as a value
StringValue(r) == IF r.ok THEN Parsed(PyStr(r.val), r.pos) ELSE Fail

\* is the character at j the bracket that closes an empty container?
Closes(s, j, bracket) == j <= Len(s) /\ s[j] = bracket

RECURSIVE ParseValue(_, _)
RECURSIVE ParseArrayItems(_, _, _)
RECURSIVE ParseObjectItems(_, _, _)
RECURSIVE AfterElement(_, _, _)
RECURSIVE AfterKey(_, _, _)
RECURSIVE AfterItem(_, _, _, _)

\* i is at the first item of an array whose earlier items are acc
ParseArrayItems(s, i, acc) == AfterElement(s, acc, ParseValue(s, i))

\* an item has been read: the end of the array, or a comma and the next item
AfterElement(s, acc, item) ==
  IF ~item.ok \/ SkipWs(s, item.pos) > Len(s) THEN Fail
  ELSE IF s[SkipWs(s, item.pos)] = "]" THEN Parsed(PyList(Append(acc, item.val)), SkipWs(s, item.pos) + 1)
  ELSE IF s[SkipWs(s, item.pos)] = ","
    THEN ParseArrayItems(s, SkipWs(s, SkipWs(s, item.pos) + 1), Append(acc, item.val))
  ELSE Fail

\* i is at the opening quote of a key of an object whose earlier items are acc
ParseObjectItems(s, i, acc) ==
  IF i > Len(s) \/ s[i] # "\"" THEN Fail ELSE AfterKey(s, acc, ScanString(s, i + 1, <<>>))

\* the key has been read: the colon, then the value
AfterKey(s, acc, key) ==
  IF ~key.ok \/ SkipWs(s, key.pos) > Len(s) THEN Fail
  ELSE IF s[SkipWs(s, key.pos)] # ":" THEN Fail
  ELSE AfterItem(s, acc, key.val, ParseValue(s, SkipWs(s, SkipWs(s, key.pos) + 1)))

\* the value has been read: the end of the object, or a comma and the next key
AfterItem(s, acc, k, item) ==
  IF ~item.ok \/ SkipWs(s, item.pos) > Len(s) THEN Fail
  ELSE IF s[SkipWs(s, item.pos)] = "}" THEN Parsed(PyDict(SetItem(acc, k, item.val)), SkipWs(s, item.pos) + 1)
  ELSE IF s[SkipWs(s, item.pos)] = ","
    THEN ParseObjectItems(s, SkipWs(s, SkipWs(s, item.pos) + 1), SetItem(acc, k, item.val))
  ELSE Fail

ParseValue(s, i) ==
  IF i > Len(s) THEN Fail
  ELSE IF s[i] = "\"" THEN StringValue(ScanString(s, i + 1, <<>>))
  ELSE IF s[i] = "{" THEN
    IF Closes(s, SkipWs(s, i + 1), "}") THEN Parsed(PyDict(<<>>), SkipWs(s, i + 1) + 1)
    ELSE ParseObjectItems(s, SkipWs(s, i + 1), <<>>)
  ELSE IF s[i] = "[" THEN
    IF Closes(s, SkipWs(s, i + 1), "]") THEN Parsed(PyList(<<>>), SkipWs(s, i + 1) + 1)
    ELSE ParseArrayItems(s, SkipWs(s, i + 1), <<>>)
  ELSE IF Lit(s, i, <<"n", "u", "l", "l">>) THEN Parsed(None, i + 4)
  ELSE IF Lit(s, i, <<"t", "r", "u", "e">>) THEN Parsed(PyBool(TRUE), i + 4)
  ELSE IF Lit(s, i, <<"f", "a", "l", "s", "e">>) THEN Parsed(PyBool(FALSE), i + 5)
  ELSE IF s[i] \in DigitChars THEN ScanNumber(s, i)
  ELSE Fail

\* one value, with nothing but whitespace around it
WholeText(s, r) == IF r.ok /\ SkipWs(s, r.pos) > Len(s) THEN r ELSE Fail

json_loads(s) == WholeText(s, ParseValue(s, SkipWs(s, 1)))

\* ------------------------------------------------------------------------
\* String literals of src/app.py
\* ------------------------------------------------------------------------
K_resume_text == <<"r", "e", "s", "u", "m", "e", "_", "t", "e", "x", "t">>
K_misc_criteria == <<"m", "i", "s", "c", "_", "c", "r", "i", "t", "e", "r", "i", "a">>
K_api_key == <<"a", "p", "i", "_", "k", "e", "y">>
K_choices == <<"c", "h", "o", "i", "c", "e", "s">>
K_message == <<"m", "e", "s", "s", "a", "g", "e">>
K_content == <<"c", "o", "n", "t", "e", "n", "t">>
K_status_code == <<"s", "t", "a", "t", "u", "s", "_", "c", "o", "d", "e">>
K_text == <<"t", "e", "x", "t">>
MSG_RESUME == <<"P", "l", "e", "a", "s", "e", " ", "p", "a", "s", "t", "e", " ", "y", "o", "u", "r", " ", "r", "e", "s", "u", "m", "e", ".">>
MSG_JOB == <<"P", "l", "e", "a", "s", "e", " ", "p", "a", "s", "t", "e", " ", "t", "h", "e", " ", "j", "o", "b", " ", "d", "e", "s", "c", "r", "i", "p", "t", "i", "o", "n", ".">>
MSG_API_KEY == <<"P", "l", "e", "a", "s", "e", " ", "e", "n", "t", "e", "r", " ", "y", "o", "u", "r", " ", "O", "p", "e", "n", "R", "o", "u", "t", "e", "r", " ", "A", "P", "I", " ", "k", "e", "y", " ", "i", "n", " ", "t", "h", "e", " ", "s", "i", "d", "e", "b", "a", "r", ".">>
MSG_UNKNOWN == <<"U", "n", "k", "n", "o", "w", "n", " ", "e", "r", "r", "o", "r">>
HDR_RESULTS == <<"R", "e", "s", "u", "l", "t", "s">>
ERR_NETWORK == <<"N", "e", "t", "w", "o", "r", "k", " ", "e", "r", "r", "o", "r", ":", " ">>
ERR_API == <<"A", "P", "I", " ", "e", "r", "r", "o", "r", " ">>
ERR_PARSE == <<"F", "a", "i", "l", "e", "d", " ", "t", "o", " ", "p", "a", "r", "s", "e", " ", "A", "P", "I", " ", "r", "e", "s", "p", "o", "n", "s", "e", " ", "a", "s", " ", "J", "S", "O", "N", ".">>
ERR_EMPTY == <<"E", "m", "p", "t", "y", " ", "r", "e", "s", "p", "o", "n", "s", "e", " ", "f", "r", "o", "m", " ", "m", "o", "d", "e", "l", ".">>

\* ------------------------------------------------------------------------
\* Outcomes of a call: a returned value, or an exception leaving the function
\* ------------------------------------------------------------------------
Return(v) == [raised |-> FALSE, value |-> v]
Raise == [raised |-> TRUE, value |-> None]

\* d[key]: KeyError when the key is missing, TypeError when d is no dict
Subscript(d, key) ==
  IF d.t = "obj" /\ \E j \in 1..Len(d.p) : d.p[j][1] = key
  THEN Return(d.p[CHOOSE j \in 1..Len(d.p) : d.p[j][1] = key][2])
  ELSE Raise

\* v[0]: the first item of a list, the first character of a str; IndexError,
\* KeyError (a dict has only str keys here) or TypeError otherwise
Index0(v) ==
  IF v.t = "arr" /\ Len(v.a) > 0 THEN Return(v.a[1])
  ELSE IF v.t = "str" /\ Len(v.s) > 0 THEN Return(PyStr(<<v.s[1]>>))
  ELSE Raise

\* d.get(key, default) of a dict
DictGet(d, key, default) == IF Subscript(d, key).raised THEN default ELSE Subscript(d, key).value

\* ------------------------------------------------------------------------
\* Persistence store
\* ------------------------------------------------------------------------
Profile(resume_text, misc_criteria, api_key) ==
  [resume_text |-> resume_text, misc_criteria |-> misc_criteria, api_key |-> api_key]

Defaults == Profile(PyStr(<<>>), PyStr(<<>>), PyStr(<<>>))

\* the file system's answers to open(DATA_FILE, "w") + json.dump: the write
\* goes through, open() raises, or the write raises after open() truncated
\* the file and part of the text went out (here all but its last character)
WriteOutcomes == {"ok", "open_fails", "write_fails"}

File(text) == [exists |-> TRUE, text |-> text]
NoFile == [exists |-> FALSE, text |-> <<>>]

\* lines 15-19: the record to write
ProfileDict(resume_text, misc_criteria, api_key) ==
  PyDict(<< <<K_resume_text, resume_text>>, <<K_misc_criteria, misc_criteria>>, <<K_api_key, api_key>> >>)

\* Write opening the file with mode "a": the text goes after what the file holds
Write_Append(f, text, io) ==
  CASE io = "ok" -> [raised |-> FALSE, file |-> File(f.text \o text)]
    [] io = "open_fails" -> [raised |-> TRUE, file |-> f]
    [] io = "write_fails" -> [raised |-> TRUE, file |-> File(f.text \o SubSeq(text, 1, Len(text) - 1))]

\* lines 21-22: open(DATA_FILE, "w") and the write of `text`, under the file
\* system's answer io
Write(f, text, io) ==
  CASE io = "ok" -> [raised |-> FALSE, file |-> File(text)]
    [] io = "open_fails" -> [raised |-> TRUE, file |-> f]
    [] io = "write_fails" -> [raised |-> TRUE, file |-> File(SubSeq(text, 1, Len(text) - 1))]

\* the try block of save_user_data
SaveBody(f, resume_text, misc_criteria, api_key, io) ==
  Write(f, json_dumps(ProfileDict(resume_text, misc_criteria, api_key), PyInt(2)), io)

\* save_user_data without the except clause
save_user_data_NoExcept(f, resume_text, misc_criteria, api_key, io) ==
  SaveBody(f, resume_text, misc_criteria, api_key, io)

\* save_user_data: `except Exception: pass`
save_user_data(f, resume_text, misc_criteria, api_key, io) ==
  [SaveBody(f, resume_text, misc_criteria, api_key, io) EXCEPT !.raised = FALSE]

\* lines 34-38: the record read from the decoded file; data.get raises
\* AttributeError when data is no dict
FromData(data) ==
  IF ~data.ok THEN Raise
  ELSE IF data.val.t # "obj" THEN Raise
  ELSE Return(Profile(DictGet(data.val, K_resume_text, PyStr(<<>>)),
                      DictGet(data.val, K_misc_criteria, PyStr(<<>>)),
                      DictGet(data.val, K_api_key, PyStr(<<>>))))

\* the try block of load_user_data; None stands for falling out of the `if`
LoadBody(f, readable) ==
  IF ~f.exists THEN Return(None)
  ELSE IF ~readable THEN Raise
  ELSE FromData(json_loads(f.text))

\* OrDefaults without the except clause
OrDefaults_NoExcept(r) == IF ~r.raised /\ r.value = None THEN Return(Defaults) ELSE r

\* lines 39-42: an exception is swallowed; without a record, the defaults
OrDefaults(r) == IF r.raised \/ r.value = None THEN Return(Defaults) ELSE r

load_user_data(f, readable) == OrDefaults(LoadBody(f, readable))

\* ------------------------------------------------------------------------
\* Evaluation client
\* ------------------------------------------------------------------------
Result(ok, content, raw, error) == [ok |-> ok, content |-> content, raw |-> raw, error |-> error]

\* data["choices"][0]["message"]["content"]
Then0(r) == IF r.raised THEN Raise ELSE Index0(r.value)
ThenKey(r, key) == IF r.raised THEN Raise ELSE Subscript(r.value, key)

ExtractContent(data) == ThenKey(ThenKey(Then0(Subscript(data, K_choices)), K_message), K_content)

\* Content without the try/except around the lookup
Content_NoTry(data) == ExtractContent(data)

\* lines 143-147: the content, None when the lookup raises
Content(data) == IF ExtractContent(data).raised THEN Return(None) ELSE ExtractContent(data)

\* FromContent without the emptiness check of line 149
FromContent_NoEmptyCheck(content, data) == Return(Result(TRUE, content, data, None))

\* FromContent returning the content stripped of surrounding whitespace
FromContent_Stripped(content, data) ==
  IF ~Truthy(content)
  THEN Return(Result(FALSE, PyStr(<<>>), data, PyStr(ERR_EMPTY)))
  ELSE Return(Result(TRUE, IF content.t = "str" THEN PyStr(Strip(content.s)) ELSE content, data, None))

\* lines 149-157: the result for the content found in the decoded body
FromContent(content, data) ==
  IF ~Truthy(content)
  THEN Return(Result(FALSE, PyStr(<<>>), data, PyStr(ERR_EMPTY)))
  ELSE Return(Result(TRUE, content, data, None))

\* lines 114-120: the request raised a RequestException
TransportError(http) ==
  Return(Result(FALSE, PyStr(<<>>), PyDict(<<>>), PyStr(ERR_NETWORK \o http.detail)))

\* lines 123-131: the status is not 200
ApiError(http) ==
  Return(Result(FALSE, PyStr(<<>>),
                PyDict(<< <<K_status_code, PyInt(http.status_code)>>, <<K_text, PyStr(http.text)>> >>),
                PyStr(ERR_API \o IntToStr(http.status_code) \o <<":", " ">> \o http.text)))

\* lines 133-157: response.json(), then the content
Decoded(http, data) ==
  IF ~data.ok
  THEN Return(Result(FALSE, PyStr(<<>>), PyDict(<< <<K_text, PyStr(http.text)>> >>), PyStr(ERR_PARSE)))
  ELSE IF Content(data.val).raised THEN Raise
  ELSE FromContent(Content(data.val).value, data.val)

Decode(http) == Decoded(http, json_loads(http.text))

\* Classify treating only the 5xx statuses as errors
Classify_ServerErrorsOnly(http) ==
  IF http.kind = "exc" THEN TransportError(http)
  ELSE IF http.status_code >= 500 THEN ApiError(http)
  ELSE Decode(http)

\* lines 114-157: the result for the answer of requests.post, which is
\* [kind |-> "exc", detail] for a RequestException and
\* [kind |-> "response", status_code, text] for a response
Classify(http) ==
  IF http.kind = "exc" THEN TransportError(http)
  ELSE IF http.status_code # 200 THEN ApiError(http)
  ELSE Decode(http)

\* what a call gave, and the number of requests it made
Posted(r, n) == [raised |-> r.raised, value |-> r.value, posts |-> n]

\* call_openrouter posting a second time when the first request raised
call_openrouter_Retry(answers) ==
  IF answers[1].kind = "exc" THEN Posted(Classify(answers[2]), 2) ELSE Posted(Classify(answers[1]), 1)

\* call_openrouter: one requests.post (lines 107-113), whose answer is the
\* first of `answers`, the answers the endpoint would give to successive
\* requests; `posts` counts the requests made
call_openrouter(answers) == Posted(Classify(answers[1]), 1)

\* ------------------------------------------------------------------------
\* main(): the page
\* ------------------------------------------------------------------------
MSG_WARNING == <<"P", "l", "e", "a", "s", "e", " ", "e", "n", "t", "e", "r", " ", "y", "o", "u", "r", " ", "O", "p", "e", "n", "R", "o", "u", "t", "e", "r", " ", "A", "P", "I", " ", "k", "e", "y", " ", "t", "o", " ", "u", "s", "e", " ", "t", "h", "e", " ", "a", "p", "p", "l", "i", "c", "a", "t", "i", "o", "n", ".">>

\* a key st.session_state does not hold
Absent == [t |-> "absent"]

\* one call of a display function of the page
Show(fn, arg) == [fn |-> fn, arg |-> arg]

\* lines 169-174: a key the session does not hold yet takes the persisted value
InitSession(s, persisted) ==
  Profile(IF s.resume_text = Absent THEN persisted.resume_text ELSE s.resume_text,
          IF s.misc_criteria = Absent THEN persisted.misc_criteria ELSE s.misc_criteria,
          IF s.api_key = Absent THEN persisted.api_key ELSE s.api_key)

\* lines 194-195: the sidebar's warning
Sidebar(api_key) == IF ~Truthy(api_key) THEN <<Show("warning", PyStr(MSG_WARNING))>> ELSE <<>>

\* Validate without the check of the API key
Validate_NoKeyCheck(resume_text, job_description, api_key) ==
  IF ~Truthy(PyStr(Strip(resume_text.s))) THEN PyStr(MSG_RESUME)
  ELSE IF ~Truthy(PyStr(Strip(job_description.s))) THEN PyStr(MSG_JOB)
  ELSE None

\* lines 222-230: the message of the first check that fails, None when all pass
Validate(resume_text, job_description, api_key) ==
  IF ~Truthy(PyStr(Strip(resume_text.s))) THEN PyStr(MSG_RESUME)
  ELSE IF ~Truthy(PyStr(Strip(job_description.s))) THEN PyStr(MSG_JOB)
  ELSE IF ~Truthy(api_key) THEN PyStr(MSG_API_KEY)
  ELSE None

\* ShouldSave saving only after a successful call
ShouldSave_OnlyOk(resume_text, misc_criteria, api_key, res) ==
  /\ res.ok
  /\ \/ Truthy(PyStr(Strip(resume_text.s)))
     \/ Truthy(PyStr(Strip(misc_criteria.s)))
     \/ Truthy(PyStr(Strip(api_key.s)))

\* line 243: whether the inputs are saved after the call returned `res`
ShouldSave(resume_text, misc_criteria, api_key, res) ==
  \/ Truthy(PyStr(Strip(resume_text.s)))
  \/ Truthy(PyStr(Strip(misc_criteria.s)))
  \/ Truthy(PyStr(Strip(api_key.s)))

\* lines 246-256: what the page shows for a result
Display(res) ==
  IF ~res.ok
  THEN << Show("error", IF Truthy(res.error) THEN res.error ELSE PyStr(MSG_UNKNOWN)),
          Show("code", PyStr(json_dumps(res.raw, PyInt(2)))) >>
  ELSE << Show("subheader", PyStr(HDR_RESULTS)),
          Show("markdown", res.content),
          Show("code", PyStr(json_dumps(res.raw, PyInt(2)))) >>

\* what the page shows when an exception leaves main()
Traceback == <<Show("exception", None)>>

\* ------------------------------------------------------------------------
\* The environment: what the user types, what the disk holds at start-up,
\* what the endpoint answers
\* ------------------------------------------------------------------------
MaxSubmissions == 2

ResumeTexts == { <<>>, <<" ", "\n">>, <<" ", "\"", "\\", "U+00E9", "\n", "b", " ">> }
JobTexts == { <<>>, <<"j", " ">> }
MiscTexts == { <<>>, <<"U+4E2D", "\t">> }
ApiKeys == { <<>>, <<" ">>, <<"k">> }

\* DATA_FILE at start-up: missing, empty, cut short, JSON that is no object,
\* an object lacking keys, a complete record written on one line
InitialFiles ==
  { NoFile,
    File(<<>>),
    File(<<"{", "\"", "r">>),
    File(<<"[", "]">>),
    File(json_dumps(PyDict(<< <<K_resume_text, PyStr(<<"a", "\"">>)>> >>), PyInt(2))),
    File(json_dumps(PyDict(<< <<K_api_key, PyStr(<<"k">>)>>,
                              <<K_misc_criteria, PyStr(<<>>)>>,
                              <<K_resume_text, PyStr(<<" ", "\n">>)>> >>), None)) }

T_timeout == <<"t", "i", "m", "e", "d", " ", "o", "u", "t">>
T_verdict == <<"#", "#", " ", "G", "o">>
K_id == <<"i", "d">>

\* a chat completion whose choices[0].message.content is `content`
ChatBody(content) ==
  PyDict(<< <<K_id, PyStr(<<"1">>)>>,
            <<K_choices, PyList(<<PyDict(<< <<K_message, PyDict(<< <<K_content, content>> >>)>> >>)>>)>> >>)

\* bodies whose content is a non-empty string
GoodContents == { T_verdict, <<"U+00E9", "\"", "\n">> }

\* bodies in which choices[0].message.content is absent or empty
EmptyBodies ==
  { ChatBody(PyStr(<<>>)),
    ChatBody(None),
    PyDict(<<>>),
    PyDict(<< <<K_choices, PyList(<<>>)>> >>),
    PyDict(<< <<K_choices, PyList(<<PyDict(<<>>)>>)>> >>),
    PyDict(<< <<K_choices, PyList(<<PyDict(<< <<K_message, PyDict(<<>>)>> >>)>>)>> >>),
    PyDict(<< <<K_choices, PyList(<<PyDict(<< <<K_message, PyStr(<<"m">>)>> >>)>>)>> >>),
    PyDict(<< <<K_choices, PyStr(<<"a", "b">>)>> >>),
    PyDict(<< <<K_choices, PyDict(<< <<K_message, PyDict(<< <<K_content, PyStr(<<"x">>)>> >>)>> >>)>> >>),
    PyList(<<>>),
    PyStr(<<"x">>),
    None }

\* bodies whose content is no string
OddBodies == { ChatBody(c) : c \in { PyInt(7), PyInt(0), PyBool(TRUE), PyList(<<PyStr(<<"x">>)>>) } }

BodyValues == { ChatBody(PyStr(c)) : c \in GoodContents } \union EmptyBodies \union OddBodies

\* response bodies that are not JSON
Garbage == { <<>>, <<"<", "h", ">">>, <<"{", "\"", "c">> }

Response(status_code, text) == [kind |-> "response", status_code |-> status_code, detail |-> <<>>, text |-> text]
Exception(detail) == [kind |-> "exc", status_code |-> 0, detail |-> detail, text |-> <<>>]

HttpOutcomes ==
  { Exception(d) : d \in { <<>>, T_timeout } }
  \union { Response(200, json_dumps(v, None)) : v \in BodyValues }
  \union { Response(200, t) : t \in Garbage }
  \union { Response(st, t) : st \in {401, 500},
                            t \in { <<>>, <<"<", "h", ">">>, json_dumps(ChatBody(PyStr(T_verdict)), None) } }

\* what the endpoint would answer to a second request
SecondAnswers == { Exception(T_timeout), Response(200, json_dumps(ChatBody(PyStr(T_verdict)), None)) }

\* ------------------------------------------------------------------------
\* State
\* ------------------------------------------------------------------------
VARIABLES
  file,             \* DATA_FILE on disk: [exists, text]
  session,          \* st.session_state: resume_text, misc_criteria, api_key
  job_description,  \* the job description widget
  submit,           \* whether this run was started by "Run Evaluation"
  pc,               \* where the run of main() stands
  persisted_data,   \* what load_user_data() returned (line 166), until line 174
  readOk,           \* whether the disk let this run read the file
  answer,           \* what requests.post answered to this run's request
  result,           \* what call_openrouter returned (line 233)
  posts,            \* requests.post calls of this run
  written,          \* how the write of this run ended
  shown,            \* what the page shows
  uncaught,         \* whether an exception left main()
  latest,           \* inputs of the latest submission that passed validation
  latestWrite,      \* how the write of that submission ended
  requests,         \* requests.post calls so far
  validated         \* submissions that passed validation so far

vars == << file, session, job_description, submit, pc, persisted_data, readOk, answer, result, posts,
           written, shown, uncaught, latest, latestWrite, requests, validated >>

NoProfile == Profile(Absent, Absent, Absent)
NoResult == Result(FALSE, None, None, None)
NoAnswer == [kind |-> "none", status_code |-> 0, detail |-> <<>>, text |-> <<>>]

Init ==
  /\ file \in InitialFiles
  /\ session = NoProfile
  /\ job_description = PyStr(<<>>)
  /\ submit = FALSE
  /\ pc = "main"
  /\ persisted_data = NoProfile
  /\ readOk = TRUE
  /\ answer = NoAnswer
  /\ result = NoResult
  /\ posts = 0
  /\ written = "none"
  /\ shown = <<>>
  /\ uncaught = FALSE
  /\ latest = NoProfile
  /\ latestWrite = "none"
  /\ requests = 0
  /\ validated = 0

\* the locals and the page of a run that starts
FreshRun ==
  /\ persisted_data' = NoProfile
  /\ readOk' = TRUE
  /\ answer' = NoAnswer
  /\ result' = NoResult
  /\ posts' = 0
  /\ written' = "none"
  /\ shown' = <<>>
  /\ uncaught' = FALSE

\* A new browser session opens the page: the session state is empty.
NewSession ==
  /\ pc = "done"
  /\ session' = NoProfile
  /\ job_description' = PyStr(<<>>)
  /\ submit' = FALSE
  /\ pc' = "main"
  /\ FreshRun
  /\ UNCHANGED << file, latest, latestWrite, requests, validated >>

\* The user fills the widgets (typing a text again leaves it as it was) and
\* the script runs again, by "Run Evaluation" (click) or by the edit.
Interact ==
  /\ pc = "done"
  /\ \E r \in {PyStr(t) : t \in ResumeTexts},
        m \in {PyStr(t) : t \in MiscTexts},
        k \in {PyStr(t) : t \in ApiKeys},
        j \in {PyStr(t) : t \in JobTexts},
        click \in BOOLEAN :
       /\ (click /\ Validate(r, j, k) = None) => validated < MaxSubmissions
       /\ session' = Profile(r, m, k)
       /\ job_description' = j
       /\ submit' = click
  /\ pc' = "main"
  /\ FreshRun
  /\ UNCHANGED << file, latest, latestWrite, requests, validated >>

\* the run goes on with what load_user_data returned, or ends with its exception
Loaded(r) ==
  IF r.raised
  THEN /\ uncaught' = TRUE
       /\ shown' = Traceback
       /\ pc' = "done"
       /\ UNCHANGED << persisted_data, session >>
  ELSE /\ persisted_data' = r.value
       /\ session' = InitSession(session, r.value)
       /\ pc' = "loaded"
       /\ UNCHANGED << uncaught, shown >>

\* lines 166-174: load the persisted data, initialise the session state
Load ==
  /\ pc = "main"
  /\ \E readable \in BOOLEAN :
       /\ readOk' = readable
       /\ Loaded(load_user_data(file, readable))
  /\ UNCHANGED << file, job_description, submit, answer, result, posts, written, latest, latestWrite,
                  requests, validated >>

\* lines 176-221: the widgets are drawn; the submit branch is entered or not
Render ==
  /\ pc = "loaded"
  /\ shown' = Sidebar(session.api_key)
  /\ pc' = IF submit THEN "validate" ELSE "done"
  /\ persisted_data' = NoProfile
  /\ UNCHANGED << file, session, job_description, submit, readOk, answer, result, posts, written, uncaught,
                  latest, latestWrite, requests, validated >>

\* lines 222-230: the three checks
Validation ==
  /\ pc = "validate"
  /\ LET msg == Validate(session.resume_text, job_description, session.api_key)
     IN IF msg # None
        THEN /\ shown' = Append(shown, Show("error", msg))
             /\ pc' = "done"
             /\ UNCHANGED << latest, latestWrite, validated >>
        ELSE /\ pc' = "call"
             /\ latest' = session
             /\ latestWrite' = "pending"
             /\ validated' = validated + 1
             /\ UNCHANGED shown
  /\ UNCHANGED << file, session, job_description, submit, persisted_data, readOk, answer, result, posts,
                  written, uncaught, requests >>

\* the run goes on with what call_openrouter returned, or ends with its exception
Returned(r) ==
  /\ posts' = posts + r.posts
  /\ requests' = requests + r.posts
  /\ IF r.raised
     THEN /\ uncaught' = TRUE
          /\ shown' = shown \o Traceback
          /\ pc' = "done"
          /\ UNCHANGED result
     ELSE /\ result' = r.value
          /\ pc' = "save"
          /\ UNCHANGED << uncaught, shown >>

\* lines 232-240: call_openrouter, with the endpoint's answer
Call ==
  /\ pc = "call"
  /\ \E http \in HttpOutcomes, second \in SecondAnswers :
       /\ answer' = http
       /\ Returned(call_openrouter(<<http, second>>))
  /\ UNCHANGED << file, session, job_description, submit, persisted_data, readOk, written,
                  latest, latestWrite, validated >>

\* the run goes on after save_user_data, or ends with its exception
Saved(r) ==
  /\ file' = r.file
  /\ IF r.raised
     THEN /\ uncaught' = TRUE
          /\ shown' = shown \o Traceback
          /\ pc' = "done"
     ELSE /\ pc' = "inspect"
          /\ UNCHANGED << uncaught, shown >>

\* lines 242-244: save the inputs, with the file system's answer
Save ==
  /\ pc = "save"
  /\ IF ShouldSave(session.resume_text, session.misc_criteria, session.api_key, result)
     THEN \E io \in WriteOutcomes :
            /\ written' = io
            /\ latestWrite' = io
            /\ Saved(save_user_data(file, session.resume_text, session.misc_criteria, session.api_key, io))
     ELSE /\ pc' = "inspect"
          /\ latestWrite' = "skipped"
          /\ UNCHANGED << file, written, uncaught, shown >>
  /\ UNCHANGED << session, job_description, submit, persisted_data, readOk, answer, result, posts,
                  latest, requests, validated >>

\* lines 246-256: show the result
Inspect ==
  /\ pc = "inspect"
  /\ shown' = shown \o Display(result)
  /\ pc' = "done"
  /\ UNCHANGED << file, session, job_description, submit, persisted_data, readOk, answer, result, posts,
                  written, uncaught, latest, latestWrite, requests, validated >>

Next == NewSession \/ Interact \/ Load \/ Render \/ Validation \/ Call \/ Save \/ Inspect

Spec == Init /\ [][Next]_vars

\* ------------------------------------------------------------------------
\* Properties
\* ------------------------------------------------------------------------
\* call_openrouter has returned a result in this run
HasResult == posts > 0 /\ result # NoResult

\* the last thing the page shows
LastShown == shown[Len(shown)]

\* text made of whitespace only
Blank(t) == \A i \in 1..Len(t) : t[i] \in Whitespace

\* the record the file decodes to is the dict of this profile
FileHolds(profile) ==
  /\ file.exists
  /\ json_loads(file.text).ok
  /\ json_loads(file.text).val = ProfileDict(profile.resume_text, profile.misc_criteria, profile.api_key)

\* C1: every result call_openrouter returns has the raw field and satisfies:
\* ok implies a non-empty content and error None; not ok implies the empty
\* string as content and a non-empty string as error.
C1_ResultInvariant ==
  HasResult =>
    /\ DOMAIN result = {"ok", "content", "raw", "error"}
    /\ result.ok => (Truthy(result.content) /\ result.content # PyStr(<<>>) /\ result.error = None)
    /\ ~result.ok => (result.content = PyStr(<<>>) /\ result.error.t = "str" /\ Len(result.error.s) > 0)

C1_Witness ==
  /\ pc = "inspect"
  /\ result.ok
  /\ result.content = PyStr(T_verdict)
  /\ result.error = None

\* C2: a 200 response whose body is a chat completion with a non-empty string
\* S as choices[0].message.content gives ok = TRUE, content = S unchanged,
\* error = None and raw = the whole decoded body.
C2_SuccessResult ==
  \A c \in GoodContents :
    (posts > 0 /\ answer = Response(200, json_dumps(ChatBody(PyStr(c)), None)))
      => result = Result(TRUE, PyStr(c), ChatBody(PyStr(c)), None)

C2_Witness ==
  /\ pc = "inspect"
  /\ answer = Response(200, json_dumps(ChatBody(PyStr(<<"U+00E9", "\"", "\n">>)), None))
  /\ result.content = PyStr(<<"U+00E9", "\"", "\n">>)

\* the decimal digits of the statuses the endpoint answers with
StatusText == (401 :> <<"4", "0", "1">>) @@ (500 :> <<"5", "0", "0">>)

\* C3: a response whose status is not 200 gives, whatever its body, ok = FALSE,
\* the empty content, error = "API error <status>: <body>" and
\* raw = {status_code, text}; the body is not looked at.
C3_ApiError ==
  (posts > 0 /\ answer.kind = "response" /\ answer.status_code # 200) =>
    /\ answer.status_code \in DOMAIN StatusText
    /\ result = Result(FALSE, PyStr(<<>>),
                       PyDict(<< <<K_status_code, PyInt(answer.status_code)>>, <<K_text, PyStr(answer.text)>> >>),
                       PyStr(ERR_API \o StatusText[answer.status_code] \o <<":", " ">> \o answer.text))

C3_Witness ==
  /\ pc = "inspect"
  /\ answer = Response(401, json_dumps(ChatBody(PyStr(T_verdict)), None))
  /\ ~result.ok
  /\ result.raw = PyDict(<< <<K_status_code, PyInt(401)>>, <<K_text, PyStr(answer.text)>> >>)

\* C4: a 200 response whose body is JSON in which choices[0].message.content
\* is absent or empty gives ok = FALSE, the empty content,
\* error = "Empty response from model." and raw = the whole decoded body, and
\* no exception leaves the call.
C4_EmptyContent ==
  \A v \in EmptyBodies :
    (posts > 0 /\ answer = Response(200, json_dumps(v, None)))
      => (~uncaught /\ result = Result(FALSE, PyStr(<<>>), v, PyStr(ERR_EMPTY)))

C4_Witness ==
  /\ pc = "inspect"
  /\ answer = Response(200, json_dumps(PyDict(<< <<K_choices, PyList(<<>>)>> >>), None))
  /\ result = Result(FALSE, PyStr(<<>>), PyDict(<< <<K_choices, PyList(<<>>)>> >>), PyStr(ERR_EMPTY))

\* the messages of the fields that are missing in this submission
MissingMessages ==
  (IF Blank(session.resume_text.s) THEN {MSG_RESUME} ELSE {})
  \union (IF Blank(job_description.s) THEN {MSG_JOB} ELSE {})
  \union (IF session.api_key.s = <<>> THEN {MSG_API_KEY} ELSE {})

\* C5: in a submission whose resume, job description or API key is empty,
\* call_openrouter is never invoked, and the run ends showing the error
\* message of a missing field ("Please paste your resume." when the resume is
\* empty); the three messages differ.
C5_ValidationGuards ==
  (/\ submit
   /\ pc \notin {"main", "loaded"}
   /\ (session.resume_text.s = <<>> \/ job_description.s = <<>> \/ session.api_key.s = <<>>)) =>
    /\ posts = 0
    /\ pc \in {"validate", "done"}
    /\ pc = "done" =>
         /\ Len(shown) > 0
         /\ LastShown.fn = "error"
         /\ LastShown.arg.s \in MissingMessages
         /\ session.resume_text.s = <<>> => LastShown.arg = PyStr(MSG_RESUME)
    /\ Cardinality({MSG_RESUME, MSG_JOB, MSG_API_KEY}) = 3

C5_Witness ==
  /\ pc = "done"
  /\ submit
  /\ session.api_key.s = <<>>
  /\ ~Blank(session.resume_text.s)
  /\ ~Blank(job_description.s)
  /\ posts = 0
  /\ LastShown = Show("error", PyStr(MSG_API_KEY))

FieldKey == [resume_text |-> K_resume_text, misc_criteria |-> K_misc_criteria, api_key |-> K_api_key]

\* the value load_user_data is to give a field, from the pairs of the decoded file
FieldOf(pairs, key) ==
  IF \E j \in 1..Len(pairs) : pairs[j][1] = key
  THEN pairs[CHOOSE j \in 1..Len(pairs) : pairs[j][1] = key][2]
  ELSE PyStr(<<>>)

\* the file is missing, unreadable, not JSON, or JSON that is no object
Corrupted(f, readable, data) == ~f.exists \/ ~readable \/ ~data.ok \/ data.val.t # "obj"

\* C7: load_user_data never raises and returns a record of exactly the keys
\* resume_text, misc_criteria, api_key: all empty strings when the file is
\* missing or corrupted; for a JSON object, the stored value of each key it
\* holds and the empty string for each key it lacks.
C7_LoadTotal ==
  /\ ~(uncaught /\ posts = 0)
  /\ pc = "loaded" =>
       /\ DOMAIN persisted_data = {"resume_text", "misc_criteria", "api_key"}
       /\ IF Corrupted(file, readOk, json_loads(file.text))
          THEN persisted_data = Profile(PyStr(<<>>), PyStr(<<>>), PyStr(<<>>))
          ELSE \A name \in DOMAIN FieldKey :
                 persisted_data[name] = FieldOf(json_loads(file.text).val.p, FieldKey[name])

C7_Witness ==
  /\ pc = "loaded"
  /\ readOk
  /\ file = File(json_dumps(PyDict(<< <<K_resume_text, PyStr(<<"a", "\"">>)>> >>), PyInt(2)))
  /\ persisted_data = Profile(PyStr(<<"a", "\"">>), PyStr(<<>>), PyStr(<<>>))

\* the page shows the result of the call
ShowsResult ==
  IF result.ok
  THEN \E i \in 1..Len(shown) : shown[i] = Show("markdown", result.content)
  ELSE /\ \E i \in 1..Len(shown) : shown[i] = Show("error", result.error)
       /\ \E i \in 1..Len(shown) : shown[i] = Show("code", PyStr(json_dumps(result.raw, PyInt(2))))

\* C8: no exception leaves save_user_data, also when open() or the write
\* fails: the run goes on and shows the result of the call (the content when
\* ok, the error and raw otherwise); and every run that has not ended can
\* take its next step, so that it ends with the form ready again.
C8_SaveSwallows ==
  /\ ~uncaught
  /\ (pc = "done" /\ posts > 0) => ShowsResult
  /\ pc # "done" => ENABLED (Load \/ Render \/ Validation \/ Call \/ Save \/ Inspect)

C8_Witness ==
  /\ pc = "done"
  /\ written = "write_fails"
  /\ result.ok
  /\ ShowsResult
  /\ ~uncaught

\* what holds in every state for C9
C9_Saved ==
  /\ (pc = "inspect" \/ (pc = "done" /\ posts > 0)) => written \in WriteOutcomes
  /\ (pc = "done" /\ submit /\ posts = 0) => written = "none"
  /\ written = "ok" => FileHolds(session)
  /\ latestWrite = "ok" => FileHolds(latest)

\* C9: the inputs are saved exactly in the submissions that passed validation:
\* after call_openrouter returned, whether its result is ok or not, and before
\* the result is looked at; the file changes in no other step, so a rejected
\* submission leaves it as it was; and after a write that went through, the
\* file holds the inputs of the latest submission that passed validation.
C9_SavePolicy ==
  /\ []C9_Saved
  /\ [][file' # file =>
          (pc = "save" /\ Validate(session.resume_text, job_description, session.api_key) = None)]_vars

C9_Witness ==
  /\ pc = "done"
  /\ validated = 2
  /\ ~result.ok
  /\ posts = 1
  /\ written = "ok"
  /\ FileHolds(session)

\* C10: a call of call_openrouter makes exactly one request: a request that
\* fails in transport gives ok = FALSE, the empty content,
\* error = "Network error: <detail>" and raw = {} with no second request, and
\* the requests made are as many as the submissions that passed validation.
C10_SingleAttempt ==
  /\ posts \in {0, 1}
  /\ pc \in {"save", "inspect"} => posts = 1
  /\ requests = (IF pc = "call" THEN validated - 1 ELSE validated)
  /\ (posts > 0 /\ answer.kind = "exc") =>
       result = Result(FALSE, PyStr(<<>>), PyDict(<<>>), PyStr(ERR_NETWORK \o answer.detail))

C10_Witness ==
  /\ pc = "done"
  /\ answer = Exception(T_timeout)
  /\ posts = 1
  /\ requests = 2
  /\ shown = << Show("error", PyStr(ERR_NETWORK \o T_timeout)), Show("code", PyStr(<<"{", "}">>)) >>

====
